---- MODULE Spec2Model ----
(***************************************************************************)
(* Model of the cash-flow forecasting engine (src/forecaster.py), of the   *)
(* seasonal analyzer (src/analyzer.py) and of the data processor           *)
(* (src/data_processor.py).                                                *)
(*                                                                         *)
(* A CashFlowForecaster holds a monthly frame `data`; its methods build    *)
(* forecast frames (moving average, seasonal naive, exponential smoothing, *)
(* ensemble) and enrich them in place (confidence intervals, scenarios).   *)
(*                                                                         *)
(* Numbers are exact rationals <<n, d>> (d > 0, lowest terms); the float   *)
(* NaN is <<0, 0>>.  A month period is the integer year * 12 + month - 1.  *)
(* A timestamp is [ym, eom]: the month it falls in and whether it is the   *)
(* month's last day (eom) or its first.                                    *)
(***************************************************************************)
EXTENDS Integers, Sequences, FiniteSets, TLC

VARIABLES data, data_columns, df, outcome, call, stdout, ci_column, ci_repeat,
          last_scenarios, analysis, processor, csv

vars == <<data, data_columns, df, outcome, call, stdout, ci_column, ci_repeat,
          last_scenarios, analysis, processor, csv>>

\* the state of the forecaster, of the analyzer and of the processor
forecaster_vars == <<df, outcome, call, stdout, ci_column, ci_repeat,
                     last_scenarios>>
processor_vars == <<processor, csv>>

(***************************************************************************)
(* Bounds of the model.                                                    *)
(***************************************************************************)
MaxLen == 2          \* longest free-form series drawn by Init
MaxPostLen == 2      \* longest series drawn by InitPost
MaxVal == 1          \* observed values are 0..MaxVal
MaxH == 1            \* horizons 0..MaxH (plus the default horizon)
MaxWindow == 1       \* windows 1..MaxWindow (plus the default window)
BaseYear == 2023     \* year of the first observation
StartMonth == 11     \* calendar month (1..12) of the first observation
StdScale == 100      \* the square root of std() is kept to 1/StdScale
MaxRows == 4         \* daily files of 1..MaxRows rows
MaxCleans == 2       \* clean_data runs at most MaxCleans times on loaded data

(***************************************************************************)
(* Program constants.                                                      *)
(***************************************************************************)
DefaultWindow == 3   \* moving_average_forecast(window=3)
DefaultPeriods == 12 \* seasonal_naive_forecast(periods=12)

Columns == {"net_cash_flow", "cash_inflow"}
MissingColumn == "no_such_column"
Steps == {1, 12, 13}  \* month distance between successive observations
Vals == 0..MaxVal
Horizons == (0..MaxH) \cup {DefaultPeriods}
Windows == (1..MaxWindow) \cup {DefaultWindow}

(***************************************************************************)
(* Exact arithmetic with NaN.                                              *)
(***************************************************************************)
Abs(n) == IF n < 0 THEN -n ELSE n

RECURSIVE GCD(_, _)
GCD(a, b) == IF b = 0 THEN a ELSE GCD(b, a % b)

NaN == <<0, 0>>
PosInf == <<1, 0>>
NegInf == <<-1, 0>>
IsNaN(x) == x = NaN
IsInf(x) == x[2] = 0 /\ x[1] # 0
Sign(n) == IF n > 0 THEN 1 ELSE IF n < 0 THEN -1 ELSE 0

Norm(n, d) ==
    IF d = 0 THEN NaN
    ELSE LET g == GCD(Abs(n), Abs(d))
             s == IF d < 0 THEN -1 ELSE 1
         IN  <<(s * n) \div g, (s * d) \div g>>

R(n) == <<n, 1>>

\* float addition: inf + (-inf) is NaN
RAdd(x, y) == IF IsNaN(x) \/ IsNaN(y) THEN NaN
              ELSE IF IsInf(x) /\ IsInf(y) THEN (IF x = y THEN x ELSE NaN)
              ELSE IF IsInf(x) THEN x
              ELSE IF IsInf(y) THEN y
              ELSE Norm(x[1] * y[2] + y[1] * x[2], x[2] * y[2])
RNeg(x) == IF IsNaN(x) THEN NaN ELSE <<-x[1], x[2]>>
RSub(x, y) == RAdd(x, RNeg(y))
\* float multiplication: inf * 0 is NaN
RMul(x, y) == IF IsNaN(x) \/ IsNaN(y) THEN NaN
              ELSE IF IsInf(x) \/ IsInf(y)
                   THEN <<Sign(x[1]) * Sign(y[1]), 0>>
              ELSE Norm(x[1] * y[1], x[2] * y[2])
\* x / k for an integer k; 0 / 0 is NaN, as for floats
RDivInt(x, k) == IF IsNaN(x) \/ k = 0 THEN NaN
                 ELSE IF IsInf(x) THEN <<Sign(x[1]) * Sign(k), 0>>
                 ELSE Norm(x[1], x[2] * k)
\* numpy float division: x / 0 is +-inf, 0 / 0 and inf / inf are NaN
RDiv(x, y) == IF IsNaN(x) \/ IsNaN(y) THEN NaN
              ELSE IF IsInf(y) THEN (IF IsInf(x) THEN NaN ELSE R(0))
              ELSE IF y[1] = 0 THEN <<Sign(x[1]), 0>>
              ELSE IF IsInf(x) THEN <<Sign(x[1]) * Sign(y[1]), 0>>
              ELSE Norm(x[1] * y[2], x[2] * y[1])
RAbs(x) == <<Abs(x[1]), x[2]>>
\* IEEE comparison: false as soon as one side is NaN
RLeq(x, y) == /\ ~IsNaN(x) /\ ~IsNaN(y)
              /\ IF IsInf(x) /\ IsInf(y) THEN x[1] <= y[1]
                 ELSE x[1] * y[2] <= y[1] * x[2]
RLt(x, y) == RLeq(x, y) /\ x # y

RECURSIVE RSum(_)
RSum(s) == IF s = <<>> THEN R(0) ELSE RAdd(s[1], RSum(Tail(s)))

\* Series.mean(): NaN over an empty selection
Mean(s) == RDivInt(RSum(s), Len(s))

RECURSIVE ISqrtRec(_, _, _)
ISqrtRec(x, lo, hi) ==
    IF lo >= hi THEN lo
    ELSE LET mid == (lo + hi + 1) \div 2
         IN  IF mid * mid <= x THEN ISqrtRec(x, mid, hi)
             ELSE ISqrtRec(x, lo, mid - 1)
ISqrt(x) == ISqrtRec(x, 0, x)

\* sqrt of a non-negative rational, truncated to a multiple of 1/StdScale
RSqrt(x) == IF IsNaN(x) THEN NaN
            ELSE IF IsInf(x) THEN x
            ELSE Norm(ISqrt((x[1] * StdScale * StdScale) \div x[2]), StdScale)

\* Series.std(): sample standard deviation (ddof = 1), NaN for one value
Std(s) ==
    LET n == Len(s)
        m == Mean(s)
        sq == [k \in 1..n |-> RMul(RSub(s[k], m), RSub(s[k], m))]
    IN  IF n < 2 THEN NaN ELSE RSqrt(RDivInt(RSum(sq), n - 1))

(***************************************************************************)
(* Periods, timestamps and the monthly frame.                              *)
(***************************************************************************)
MonthOf(ym) == (ym % 12) + 1

\* Period.to_timestamp(): the first day of the month
to_timestamp(ym) == [ym |-> ym, eom |-> FALSE]
\* Timestamp.to_period('M')
to_period(ts) == ts.ym
\* ts + pd.DateOffset(months=k): same day (clipped to the month's length)
DateOffsetMonths(ts, k) == [ym |-> ts.ym + k, eom |-> ts.eom]
\* pd.date_range(start, periods, freq='ME'): the month ends from start on
date_range(start, periods) ==
    [i \in 1..periods |-> [ym |-> start.ym + i - 1, eom |-> TRUE]]

\* self.data[column] as a sequence of numbers
ColumnOf(d, column) == [k \in 1..Len(d) |-> R(d[k][column])]

\* Series.min() of the year_month column
RECURSIVE MinYm(_)
MinYm(d) == IF Len(d) = 1 THEN d[1].year_month
            ELSE LET m == MinYm(Tail(d))
                 IN  IF d[1].year_month <= m THEN d[1].year_month ELSE m

NoFrame == <<>>

(***************************************************************************)
(* moving_average_forecast                                                 *)
(***************************************************************************)
\* variant: an expanding mean instead of a mean over the last `window` values
RollingMean_expanding(s, window) ==
    [k \in 1..Len(s) |-> IF k < window THEN NaN ELSE Mean(SubSeq(s, 1, k))]

\* Series.rolling(window).mean(): NaN until `window` values are available
RollingMean(s, window) ==
    [k \in 1..Len(s) |->
        IF k < window THEN NaN ELSE Mean(SubSeq(s, k - window + 1, k))]

moving_average_forecast(d, column, window, periods) ==
    LET ma == RollingMean(ColumnOf(d, column), window)
        last_ma == ma[Len(d)]
        forecast_vals == [i \in 1..periods |-> last_ma]
        last_date == to_timestamp(d[Len(d)].year_month)
        forecast_dates == date_range(DateOffsetMonths(last_date, 1), periods)
    IN  [date |-> forecast_dates,
         forecast |-> forecast_vals,
         method |-> [i \in 1..periods |-> "Moving Average"]]

(***************************************************************************)
(* seasonal_naive_forecast                                                 *)
(***************************************************************************)
\* variant: the fallback averages the whole column, not the calendar month
SeasonalNaiveValue_column_mean(d, column, date) ==
    LET target == to_period(DateOffsetMonths(date, -12))
        last_year_val == SelectSeq(d, LAMBDA r : r.year_month = target)
    IN  IF last_year_val # <<>> THEN R(last_year_val[1][column])
        ELSE Mean(ColumnOf(d, column))

\* one entry of the loop over forecast_dates
SeasonalNaiveValue(d, column, date) ==
    LET target == to_period(DateOffsetMonths(date, -12))
        last_year_val == SelectSeq(d, LAMBDA r : r.year_month = target)
        same_month == SelectSeq(d, LAMBDA r : MonthOf(r.year_month) = MonthOf(date.ym))
    IN  IF last_year_val # <<>> THEN R(last_year_val[1][column])
        ELSE Mean(ColumnOf(same_month, column))

seasonal_naive_forecast(d, column, periods) ==
    LET last_date == to_timestamp(d[Len(d)].year_month)
        forecast_dates == date_range(DateOffsetMonths(last_date, 1), periods)
    IN  [date |-> forecast_dates,
         forecast |-> [i \in 1..periods |->
                          SeasonalNaiveValue(d, column, forecast_dates[i])],
         method |-> [i \in 1..periods |-> "Seasonal Naive"]]

(***************************************************************************)
(* exponential_smoothing_forecast                                          *)
(*                                                                         *)
(* The Holt-Winters fit is library code: its outcome `fit` is an input,    *)
(* either an exception (ok = FALSE) or the additive level and trend that   *)
(* fit() returns, from which the library projects level + i * trend.  The  *)
(* library cannot initialise the seasonal component, and raises, on fewer  *)
(* than two full seasonal cycles; on longer series it may still raise.     *)
(* When its optimizer does not converge, fit() issues a ConvergenceWarning *)
(* and returns the parameters it stopped at (converged = FALSE): no        *)
(* exception reaches the caller.                                           *)
(***************************************************************************)
SeasonalPeriods == 12   \* ExponentialSmoothing(..., seasonal_periods=12)

FitFailed == [ok |-> FALSE, converged |-> FALSE, level |-> 0, trend |-> 0]
\* fit() returned without converging
FitStalled == [ok |-> TRUE, converged |-> FALSE, level |-> 0, trend |-> 1]
FitOutcomes(d) ==
    IF Len(d) < 2 * SeasonalPeriods THEN {FitFailed}
    ELSE {FitFailed, FitStalled} \cup
         {[ok |-> TRUE, converged |-> TRUE, level |-> l, trend |-> 1] :
             l \in Vals}

\* model.forecast(steps): indexed by the month ends that follow the index of ts
HoltWintersForecast(ts_index, fit, steps) ==
    LET n == Len(ts_index)
    IN  [index |-> date_range(DateOffsetMonths(ts_index[n], 1), steps),
         values |-> [i \in 1..steps |-> R(fit.level + i * fit.trend)]]

exponential_smoothing_forecast(d, column, periods, fit) ==
    LET start_date == to_timestamp(MinYm(d))
        ts_index == date_range(start_date, Len(d))
        forecast == HoltWintersForecast(ts_index, fit, periods)
    IN  IF fit.ok
        THEN [date |-> forecast.index,
              forecast |-> forecast.values,
              method |-> [i \in 1..periods |-> "Exponential Smoothing"]]
        ELSE seasonal_naive_forecast(d, column, periods)

\* what the call prints
exponential_smoothing_stdout(fit) ==
    IF fit.ok THEN <<>> ELSE <<"Exponential smoothing failed. Falling back.">>

(***************************************************************************)
(* ensemble_forecast                                                       *)
(***************************************************************************)
\* variant: the exponential-smoothing member is left out of the sum
ensemble_forecast_two_members(d, column, periods, fit) ==
    LET ma_f == moving_average_forecast(d, column, DefaultWindow, periods)
        seasonal_f == seasonal_naive_forecast(d, column, periods)
        es_f == exponential_smoothing_forecast(d, column, periods, fit)
        ensemble_vals ==
            [i \in 1..periods |->
                RDivInt(RAdd(ma_f.forecast[i], seasonal_f.forecast[i]), 3)]
    IN  [date |-> ma_f.date,
         forecast |-> ensemble_vals,
         method |-> [i \in 1..periods |-> "Ensemble"],
         ma_forecast |-> ma_f.forecast,
         seasonal_forecast |-> seasonal_f.forecast,
         es_forecast |-> es_f.forecast]

ensemble_forecast(d, column, periods, fit) ==
    LET ma_f == moving_average_forecast(d, column, DefaultWindow, periods)
        seasonal_f == seasonal_naive_forecast(d, column, periods)
        es_f == exponential_smoothing_forecast(d, column, periods, fit)
        ensemble_vals ==
            [i \in 1..periods |->
                RDivInt(RAdd(RAdd(ma_f.forecast[i], seasonal_f.forecast[i]),
                             es_f.forecast[i]), 3)]
    IN  [date |-> ma_f.date,
         forecast |-> ensemble_vals,
         method |-> [i \in 1..periods |-> "Ensemble"],
         ma_forecast |-> ma_f.forecast,
         seasonal_forecast |-> seasonal_f.forecast,
         es_forecast |-> es_f.forecast]

(***************************************************************************)
(* calculate_confidence_intervals and scenario_analysis (in place)         *)
(***************************************************************************)
\* forecast_df[name] = vals
SetColumn(frame, name, vals) ==
    [c \in (DOMAIN frame) \cup {name} |-> IF c = name THEN vals ELSE frame[c]]

\* forecast_df['forecast'] + k * hist_std, k = num / den
Band(frame, num, den, hist_std) ==
    [i \in 1..Len(frame.forecast) |->
        RAdd(frame.forecast[i], RMul(<<num, den>>, hist_std))]

\* variant: bounds already in the frame are widened instead of recomputed
calculate_confidence_intervals_stacking(d, forecast_df, column) ==
    LET hist_std == Std(ColumnOf(d, column))
        From(c) == IF c \in DOMAIN forecast_df THEN forecast_df[c]
                   ELSE forecast_df.forecast
        Widen(c, num, den) ==
            [i \in 1..Len(forecast_df.forecast) |->
                RAdd(From(c)[i], RMul(<<num, den>>, hist_std))]
        f1 == SetColumn(forecast_df, "lower_80", Widen("lower_80", -32, 25))
        f2 == SetColumn(f1, "upper_80", Widen("upper_80", 32, 25))
        f3 == SetColumn(f2, "lower_95", Widen("lower_95", -49, 25))
        f4 == SetColumn(f3, "upper_95", Widen("upper_95", 49, 25))
    IN  f4

calculate_confidence_intervals(d, forecast_df, column) ==
    LET hist_std == Std(ColumnOf(d, column))
        f1 == SetColumn(forecast_df, "lower_80", Band(forecast_df, -32, 25, hist_std))
        f2 == SetColumn(f1, "upper_80", Band(f1, 32, 25, hist_std))
        f3 == SetColumn(f2, "lower_95", Band(f2, -49, 25, hist_std))
        f4 == SetColumn(f3, "upper_95", Band(f3, 49, 25, hist_std))
    IN  f4

\* scenarios=None; a dict is the sequence of its items, in insertion order
NoScenarios == [none |-> TRUE, items |-> <<>>]
Dict(items) == [none |-> FALSE, items |-> items]
DefaultScenarios == << <<"pessimistic", <<4, 5>> >>,
                       <<"optimistic", <<6, 5>> >>,
                       <<"conservative", <<9, 10>> >> >>

\* f'{name}_forecast'
ScenarioColumn(name) == name \o "_forecast"

RECURSIVE ApplyScenarios(_, _)
ApplyScenarios(frame, items) ==
    IF items = <<>> THEN frame
    ELSE LET name == items[1][1]
             multiplier == items[1][2]
             col == [i \in 1..Len(frame.forecast) |->
                        RMul(frame.forecast[i], multiplier)]
         IN  ApplyScenarios(SetColumn(frame, ScenarioColumn(name), col),
                            Tail(items))

\* variant: the mapping passed is ignored, the default set always applies
scenario_analysis_always_default(forecast_df, scenarios) ==
    ApplyScenarios(forecast_df, DefaultScenarios)

scenario_analysis(forecast_df, scenarios) ==
    LET items == IF scenarios.none THEN DefaultScenarios ELSE scenarios.items
    IN  ApplyScenarios(forecast_df, items)

(***************************************************************************)
(* SeasonalAnalyzer (src/analyzer.py)                                      *)
(***************************************************************************)
DefaultPeriod == 12   \* decompose_time_series(period=12)

NoStats == [none |-> TRUE]

\* the calendar months of the frame in ascending order, as groupby('month')
\* lists them
GroupKeys(d) ==
    SelectSeq([m \in 1..12 |-> m],
              LAMBDA m : \E k \in 1..Len(d) : MonthOf(d[k].year_month) = m)

RECURSIVE RMax(_)
RMax(s) == IF Len(s) = 1 THEN s[1]
           ELSE LET m == RMax(Tail(s)) IN IF RLeq(m, s[1]) THEN s[1] ELSE m
RECURSIVE RMin(_)
RMin(s) == IF Len(s) = 1 THEN s[1]
           ELSE LET m == RMin(Tail(s)) IN IF RLeq(s[1], m) THEN s[1] ELSE m

\* variant: the last position holding the largest value
idxmax_last(s) == CHOOSE i \in 1..Len(s) :
                      /\ s[i] = RMax(s)
                      /\ \A j \in (i + 1)..Len(s) : s[j] # RMax(s)

\* Series.idxmax() / idxmin(): the first position holding the extreme value
idxmax(s) == CHOOSE i \in 1..Len(s) :
                 /\ s[i] = RMax(s)
                 /\ \A j \in 1..(i - 1) : s[j] # RMax(s)
idxmin(s) == CHOOSE i \in 1..Len(s) :
                 /\ s[i] = RMin(s)
                 /\ \A j \in 1..(i - 1) : s[j] # RMin(s)

\* Series.mean() skipping NaN entries
NanMean(s) == Mean(SelectSeq(s, LAMBDA x : ~IsNaN(x)))

\* groupby('month')[column].agg(['mean', 'std', 'min', 'max', 'count'])
GroupStats(d, column) ==
    LET keys == GroupKeys(d)
    IN  [g \in 1..Len(keys) |->
            LET v == ColumnOf(SelectSeq(d, LAMBDA r :
                                 MonthOf(r.year_month) = keys[g]), column)
            IN  [month |-> keys[g], mean |-> Mean(v), std |-> Std(v),
                 min |-> RMin(v), max |-> RMax(v), count |-> Len(v)]]

\* variant: the overall mean is the mean of the month means
analyze_seasonality_mean_of_means(d, column) ==
    LET agg == GroupStats(d, column)
        means == [g \in 1..Len(agg) |-> agg[g].mean]
        overall_mean == Mean(means)
        monthly_stats ==
            [g \in 1..Len(agg) |->
                [month |-> agg[g].month, mean |-> agg[g].mean,
                 std |-> agg[g].std, min |-> agg[g].min, max |-> agg[g].max,
                 count |-> agg[g].count,
                 seasonal_index |-> RDiv(agg[g].mean, overall_mean),
                 seasonal_variation |->
                     RMul(RDiv(RSub(agg[g].mean, overall_mean), overall_mean),
                          R(100))]]
    IN  [none |-> FALSE,
         monthly_stats |-> monthly_stats,
         peak_month |-> agg[idxmax(means)].month,
         trough_month |-> agg[idxmin(means)].month,
         seasonal_range |-> RSub(RMax(means), RMin(means)),
         coefficient_of_variation |->
             RDiv(NanMean([g \in 1..Len(agg) |-> agg[g].std]), Mean(means))]

analyze_seasonality(d, column) ==
    LET agg == GroupStats(d, column)
        means == [g \in 1..Len(agg) |-> agg[g].mean]
        overall_mean == Mean(ColumnOf(d, column))
        monthly_stats ==
            [g \in 1..Len(agg) |->
                [month |-> agg[g].month, mean |-> agg[g].mean,
                 std |-> agg[g].std, min |-> agg[g].min, max |-> agg[g].max,
                 count |-> agg[g].count,
                 seasonal_index |-> RDiv(agg[g].mean, overall_mean),
                 seasonal_variation |->
                     RMul(RDiv(RSub(agg[g].mean, overall_mean), overall_mean),
                          R(100))]]
    IN  [none |-> FALSE,
         monthly_stats |-> monthly_stats,
         peak_month |-> agg[idxmax(means)].month,
         trough_month |-> agg[idxmin(means)].month,
         seasonal_range |-> RSub(RMax(means), RMin(means)),
         coefficient_of_variation |->
             RDiv(NanMean([g \in 1..Len(agg) |-> agg[g].std]), Mean(means))]

\* scipy.stats.linregress(x, y) over x = 0 .. n-1: the least-squares slope
\* and the squared correlation (0 when y is constant)
linregress(y) ==
    LET n == Len(y)
        x == [k \in 1..n |-> R(k - 1)]
        xmean == Mean(x)
        ymean == Mean(y)
        ssxm == RSum([k \in 1..n |-> RMul(RSub(x[k], xmean), RSub(x[k], xmean))])
        ssym == RSum([k \in 1..n |-> RMul(RSub(y[k], ymean), RSub(y[k], ymean))])
        ssxym == RSum([k \in 1..n |-> RMul(RSub(x[k], xmean), RSub(y[k], ymean))])
    IN  [slope |-> RDiv(ssxym, ssxm),
         r_squared |-> IF ssxm = R(0) \/ ssym = R(0) THEN R(0)
                       ELSE RDiv(RMul(ssxym, ssxym), RMul(ssxm, ssym))]

(***************************************************************************)
(* The augmented Dickey-Fuller test is library code: its outcome is an     *)
(* input, either a failure (ValueError) or the p-value it reports, of      *)
(* which only the side of 0.05 it falls on is kept.  With its default      *)
(* constant regression the test needs at least four observations; the      *)
(* regression needs two.  The p-value of the regression itself (Student t  *)
(* distribution) is not represented.                                       *)
(***************************************************************************)
AdfMinObs == 4
AdfFailed == [ok |-> FALSE, p |-> NaN]
AdfOutcomes(d) ==
    IF Len(d) < AdfMinObs THEN {AdfFailed}
    ELSE {AdfFailed, [ok |-> TRUE, p |-> <<1, 100>>], [ok |-> TRUE, p |-> <<1, 2>>]}

\* variant: a zero first observation reports no change instead of infinity
trend_analysis_zero_on_zero_start(d, column, adf) ==
    LET y == ColumnOf(d, column)
        reg == linregress(y)
        start_val == y[1]
        end_val == y[Len(y)]
        total_change == IF start_val # R(0)
                        THEN RMul(RDiv(RSub(end_val, start_val), RAbs(start_val)), R(100))
                        ELSE R(0)
        monthly_growth == IF start_val # R(0)
                          THEN RMul(RDiv(reg.slope, RAbs(start_val)), R(100))
                          ELSE R(0)
    IN  [none |-> FALSE,
         slope |-> reg.slope,
         r_squared |-> reg.r_squared,
         total_change_percent |-> total_change,
         is_stationary |-> RLt(adf.p, <<1, 20>>),
         adf_p_value |-> adf.p,
         monthly_growth_rate_percent |-> monthly_growth]

trend_analysis(d, column, adf) ==
    LET y == ColumnOf(d, column)
        reg == linregress(y)
        start_val == y[1]
        end_val == y[Len(y)]
        total_change == IF start_val # R(0)
                        THEN RMul(RDiv(RSub(end_val, start_val), RAbs(start_val)), R(100))
                        ELSE PosInf
        monthly_growth == IF start_val # R(0)
                          THEN RMul(RDiv(reg.slope, RAbs(start_val)), R(100))
                          ELSE PosInf
    IN  [none |-> FALSE,
         slope |-> reg.slope,
         r_squared |-> reg.r_squared,
         total_change_percent |-> total_change,
         is_stationary |-> RLt(adf.p, <<1, 20>>),
         adf_p_value |-> adf.p,
         monthly_growth_rate_percent |-> monthly_growth]

\* variant: a short series always falls back to a period of one
DecompositionPeriod_one(n, period) ==
    IF n < 2 * period THEN 1 ELSE period

\* the period decompose_time_series hands to seasonal_decompose
DecompositionPeriod(n, period) ==
    IF n < 2 * period
    THEN (IF n \div 2 > 1 THEN n \div 2 ELSE 1)
    ELSE period

\* seasonal_decompose raises ValueError on fewer than two complete cycles;
\* of its result the index, the number of observations and the period are kept
decompose_time_series(d, column, period) ==
    LET p == DecompositionPeriod(Len(d), period)
        start_date == to_timestamp(MinYm(d))
        index == date_range(start_date, Len(d))
    IN  IF Len(d) < 2 * p
        THEN [ok |-> FALSE, period |-> p, decomposition |-> NoStats]
        ELSE [ok |-> TRUE, period |-> p,
              decomposition |-> [none |-> FALSE, period |-> p,
                                 nobs |-> Len(d), index |-> index]]

(***************************************************************************)
(* DataProcessor (src/data_processor.py)                                   *)
(*                                                                         *)
(* A frame is [none, cleaned, kpis, columns, rows]: `none` stands for the  *)
(* Python None; `cleaned` and `kpis` record how often the rows went        *)
(* through clean_data and whether through calculate_kpis.  A date of the   *)
(* file is <<year, month, day>>, a parsed date [ym, day].                  *)
(***************************************************************************)
DaysPerMonth == 30   \* the factor of the three KPI ratios

None == [none |-> TRUE, cleaned |-> 0, kpis |-> FALSE, columns |-> {},
         rows |-> <<>>]

FlowColumns == <<"cash_inflow", "cash_outflow", "net_cash_flow">>
BalanceColumns == <<"accounts_receivable", "accounts_payable", "inventory">>
KpiColumns == <<"dso", "dpo", "dio", "cash_cycle">>
Range(s) == {s[i] : i \in DOMAIN s}
DailyColumns == {"date"} \cup Range(FlowColumns) \cup Range(BalanceColumns)

\* pd.to_datetime of a 'YYYY-MM-DD' cell
to_datetime(cell) == [ym |-> cell[1] * 12 + cell[2] - 1, day |-> cell[3]]

DateLeq(a, b) == a.ym < b.ym \/ (a.ym = b.ym /\ a.day <= b.day)

\* sort_values('date')
RECURSIVE InsertByDate(_, _)
InsertByDate(r, s) ==
    IF s = <<>> THEN <<r>>
    ELSE IF DateLeq(r.date, s[1].date) THEN <<r>> \o s
    ELSE <<s[1]>> \o InsertByDate(r, Tail(s))
RECURSIVE sort_values(_)
sort_values(rows) ==
    IF rows = <<>> THEN <<>>
    ELSE InsertByDate(rows[1], sort_values(Tail(rows)))

\* the frame load_data stores: the rows of the file, dates parsed, by date
load_data(file) ==
    [none |-> FALSE, cleaned |-> 0, kpis |-> FALSE,
     columns |-> DailyColumns,
     rows |-> sort_values([k \in 1..Len(file) |->
                 [file[k] EXCEPT !.date = to_datetime(file[k].date)]])]

\* DataFrame.dropna(): the rows without a missing value
dropna(rows) ==
    SelectSeq(rows, LAMBDA r :
        \A c \in Range(FlowColumns) \cup Range(BalanceColumns) : ~IsNaN(r[c]))

\* the values of a sequence in ascending order
RECURSIVE InsertValue(_, _)
InsertValue(x, s) ==
    IF s = <<>> THEN <<x>>
    ELSE IF RLeq(x, s[1]) THEN <<x>> \o s
    ELSE <<s[1]>> \o InsertValue(x, Tail(s))
RECURSIVE Sorted(_)
Sorted(s) == IF s = <<>> THEN <<>> ELSE InsertValue(s[1], Sorted(Tail(s)))

\* Series.quantile(num / den), linear interpolation as numpy computes it
\* (1.22 and later): between the neighbours a and b of the position, at
\* fraction t, a + (b - a) * t when t < 1/2 and b - (b - a) * (1 - t)
\* otherwise, so an infinite neighbour can make the result NaN; NaN on no
\* value
quantile(s, num, den) ==
    LET v == Sorted(s)
        n == Len(v)
        lo == (num * (n - 1)) \div den
        frac == (num * (n - 1)) % den
        a == v[lo + 1]
        b == v[IF lo + 2 <= n THEN lo + 2 ELSE n]
        t == Norm(frac, den)
        diff_b_a == RSub(b, a)
    IN  IF n = 0 THEN NaN
        ELSE IF 2 * frac < den THEN RAdd(a, RMul(diff_b_a, t))
        ELSE RSub(b, RMul(diff_b_a, RSub(R(1), t)))

\* np.clip on a Series is Series.clip: a missing (NaN) threshold is ignored,
\* the lower threshold is applied first, then the upper one
clip(x, lower, upper) ==
    LET lo == IF ~IsNaN(lower) /\ RLt(x, lower) THEN lower ELSE x
    IN  IF ~IsNaN(upper) /\ RLt(upper, lo) THEN upper ELSE lo

\* one round of the loop of clean_data: cap the outliers of column col
CapOutliers(rows, col) ==
    LET s == [k \in 1..Len(rows) |-> rows[k][col]]
        Q1 == quantile(s, 1, 4)
        Q3 == quantile(s, 3, 4)
        IQR == RSub(Q3, Q1)
        lower == RSub(Q1, RMul(<<3, 2>>, IQR))
        upper == RAdd(Q3, RMul(<<3, 2>>, IQR))
    IN  [k \in 1..Len(rows) |->
            [rows[k] EXCEPT ![col] = clip(rows[k][col], lower, upper)]]

clean_data(frame) ==
    LET r0 == dropna(frame.rows)
        r1 == CapOutliers(r0, FlowColumns[1])
        r2 == CapOutliers(r1, FlowColumns[2])
        r3 == CapOutliers(r2, FlowColumns[3])
    IN  [frame EXCEPT !.cleaned = @ + 1, !.rows = r3]

\* Series.sum() of a group: missing values are skipped
NanSum(s) == RSum(SelectSeq(s, LAMBDA x : ~IsNaN(x)))

\* the distinct values of a set of integers in ascending order
RECURSIVE Ascending(_)
Ascending(S) ==
    IF S = {} THEN <<>>
    ELSE LET m == CHOOSE x \in S : \A y \in S : x <= y
         IN  <<m>> \o Ascending(S \ {m})

\* Period('Q') of a date, counted in quarters
QuarterOf(date) == date.ym \div 3

\* dt.to_period('M') or dt.to_period('Q') of a date, by the column it fills
PeriodKey(date, keyname) ==
    IF keyname = "year_month" THEN date.ym ELSE QuarterOf(date)

\* groupby(key).agg({flows: 'sum', balances: 'mean'}).reset_index()
GroupAgg(rows, keyname) ==
    LET Key(date) == PeriodKey(date, keyname)
        keys == Ascending({Key(rows[k].date) : k \in 1..Len(rows)})
    IN  [g \in 1..Len(keys) |->
            LET grp == SelectSeq(rows, LAMBDA r : Key(r.date) = keys[g])
                col(c) == [k \in 1..Len(grp) |-> grp[k][c]]
            IN  [c \in {keyname} \cup Range(FlowColumns) \cup Range(BalanceColumns) |->
                    IF c = keyname THEN keys[g]
                    ELSE IF c \in Range(FlowColumns) THEN NanSum(col(c))
                    ELSE NanMean(col(c))]]

aggregate_monthly(frame) ==
    LET agg == GroupAgg(frame.rows, "year_month")
    IN  [none |-> FALSE, cleaned |-> frame.cleaned, kpis |-> FALSE,
         columns |-> {"year_month", "month", "year"}
                        \cup Range(FlowColumns) \cup Range(BalanceColumns),
         rows |-> [g \in 1..Len(agg) |->
                     agg[g] @@ [month |-> MonthOf(agg[g].year_month),
                                year |-> agg[g].year_month \div 12]]]

aggregate_quarterly(frame) ==
    [none |-> FALSE, cleaned |-> frame.cleaned, kpis |-> FALSE,
     columns |-> {"year_quarter"}
                    \cup Range(FlowColumns) \cup Range(BalanceColumns),
     rows |-> GroupAgg(frame.rows, "year_quarter")]

\* replace([inf, -inf], nan) followed by fillna(0)
FillNa(x) == IF IsNaN(x) \/ IsInf(x) THEN R(0) ELSE x

\* the part of calculate_kpis that follows the aggregation
calculate_kpis(monthly) ==
    LET Kpi(r) ==
            LET dso == RMul(RDiv(r.accounts_receivable, r.cash_inflow), R(DaysPerMonth))
                dpo == RMul(RDiv(r.accounts_payable, r.cash_outflow), R(DaysPerMonth))
                dio == RMul(RDiv(r.inventory, r.cash_outflow), R(DaysPerMonth))
            IN  [dso |-> dso, dpo |-> dpo, dio |-> dio,
                 cash_cycle |-> RSub(RAdd(dso, dio), dpo)]
        Numeric == Range(FlowColumns) \cup Range(BalanceColumns) \cup Range(KpiColumns)
    IN  [monthly EXCEPT
            !.kpis = TRUE,
            !.columns = @ \cup Range(KpiColumns),
            !.rows = [g \in 1..Len(monthly.rows) |->
                        LET r == Kpi(monthly.rows[g]) @@ monthly.rows[g]
                        IN  [c \in DOMAIN r |->
                                IF c \in Numeric THEN FillNa(r[c]) ELSE r[c]]]]

(***************************************************************************)
(* Inputs.                                                                 *)
(***************************************************************************)
FirstYm == BaseYear * 12 + StartMonth - 1
BaseColumns == {"year_month"} \cup Columns

\* one monthly observation; cash_inflow - net_cash_flow is the month's outflow
Outflow == 1
Row(ym, net) == [year_month |-> ym, net_cash_flow |-> net,
                 cash_inflow |-> net + Outflow]

\* series of n observations, strictly ascending by month, steps drawn from st
RECURSIVE SeriesOfLen(_, _)
SeriesOfLen(n, st) ==
    IF n = 1 THEN {<<Row(FirstYm, a)>> : a \in Vals}
    ELSE {Append(s, Row(s[n - 1].year_month + k, a)) :
             s \in SeriesOfLen(n - 1, st), k \in st, a \in Vals}

ShortSeries(maxlen, st) == UNION {SeriesOfLen(n, st) : n \in 1..maxlen}

\* n observations following a value pattern, consecutive but for a gap of
\* one missing month after observation `gap` (gap = 0: no month missing)
PatternSeries(n, gap, a, b) ==
    [k \in 1..n |-> Row(FirstYm + k - 1 + (IF gap > 0 /\ k > gap THEN 1 ELSE 0),
                        (a * k + b) % (MaxVal + 1))]

\* twelve consecutive months of history
FullYearSeries == {PatternSeries(12, 0, a, b) : a \in 0..1, b \in Vals}

\* two seasonal cycles of history, with and without a missing month
TwoYearSeries ==
    {PatternSeries(2 * SeasonalPeriods, gap, a, b) :
        gap \in {0, SeasonalPeriods}, a \in 0..1, b \in Vals}

\* three observations, the first two a year apart, the last 13 months later
SparseSeries ==
    {<<Row(FirstYm, a), Row(FirstYm + 12, b), Row(FirstYm + 25, c)>> :
        a \in Vals, b \in Vals, c \in Vals}

\* the mappings passed to scenario_analysis: none, an empty one, and one
\* whose second name collides with a component column of the ensemble
ScenarioInputs ==
    {NoScenarios, Dict(<<>>),
     Dict(<< <<"pessimistic", <<1, 2>> >>, <<"ma", <<2, 1>> >> >>)}

NoCall == [op |-> "none", column |-> "", window |-> 0, periods |-> 0,
           fit |-> FitFailed]

\* no confidence intervals / no scenarios applied to the frame yet
NoColumn == ""
NotCalled == [called |-> FALSE, none |-> FALSE, items |-> <<>>]
Called(scenarios) ==
    [called |-> TRUE, none |-> scenarios.none, items |-> scenarios.items]

\* no analyzer call made, no processor in use
NoAnalysis == [op |-> "none", column |-> "", period |-> 0, used |-> 0,
               outcome |-> "none",
               returned |-> NoStats, seasonal_stats |-> NoStats,
               decomposition |-> NoStats]
NoProcessor == [file_path |-> "None", data |-> <<>>, monthly_data |-> <<>>,
                quarterly_data |-> <<>>, op |-> "none", raised |-> "none"]

(***************************************************************************)
(* State machine: a forecaster over `data`, the frame `df` its last        *)
(* forecasting call returned, and the post-processing applied to it.       *)
(***************************************************************************)
TypeOK ==
    /\ Len(data) >= 1
    /\ data_columns \subseteq BaseColumns \cup {"month"}
    /\ outcome \in {"none", "returned", "KeyError"}
    /\ ci_column \in Columns \cup {NoColumn}
    /\ ci_repeat \in BOOLEAN
    /\ last_scenarios \in {NotCalled} \cup {Called(x) : x \in ScenarioInputs}

Init ==
    /\ data \in ShortSeries(MaxLen, Steps) \cup SparseSeries
                \cup FullYearSeries \cup TwoYearSeries
    /\ data_columns = BaseColumns \cup {"month"}
    /\ df = NoFrame
    /\ outcome = "none"
    /\ call = NoCall
    /\ stdout = <<>>
    /\ ci_column = NoColumn
    /\ ci_repeat = FALSE
    /\ last_scenarios = NotCalled
    /\ analysis = NoAnalysis
    /\ processor = NoProcessor
    /\ csv = <<>>

\* a frame straight from the constructor, with or without a 'month' column
InitPost ==
    /\ data \in {PatternSeries(n, 0, a, b) :
                    n \in 1..MaxPostLen, a \in 0..1, b \in Vals}
                \cup {PatternSeries(2 * SeasonalPeriods, 0, 1, 0)}
    /\ data_columns \in {BaseColumns, BaseColumns \cup {"month"}}
    /\ df = NoFrame
    /\ outcome = "none"
    /\ call = NoCall
    /\ stdout = <<>>
    /\ ci_column = NoColumn
    /\ ci_repeat = FALSE
    /\ last_scenarios = NotCalled
    /\ analysis = NoAnalysis
    /\ processor = NoProcessor
    /\ csv = <<>>

Raise(exc, c) ==
    /\ df' = NoFrame
    /\ outcome' = exc
    /\ call' = c
    /\ stdout' = <<>>
    /\ ci_column' = NoColumn
    /\ ci_repeat' = FALSE
    /\ last_scenarios' = NotCalled
    /\ UNCHANGED <<analysis, processor, csv>>

Return(frame, c, out) ==
    /\ df' = frame
    /\ outcome' = "returned"
    /\ call' = c
    /\ stdout' = out
    /\ ci_column' = NoColumn
    /\ ci_repeat' = FALSE
    /\ last_scenarios' = NotCalled
    /\ UNCHANGED <<analysis, processor, csv>>

MovingAverageForecast ==
    \E column \in Columns \cup {MissingColumn}, window \in Windows,
       periods \in Horizons :
        LET c == [op |-> "moving_average", column |-> column,
                  window |-> window, periods |-> periods, fit |-> FitFailed]
        IN  /\ IF column \notin data_columns
               THEN Raise("KeyError", c)
               ELSE Return(moving_average_forecast(data, column, window, periods),
                           c, <<>>)
            /\ UNCHANGED <<data, data_columns>>

SeasonalNaiveForecast ==
    \E column \in Columns \cup {MissingColumn}, periods \in Horizons :
        LET c == [op |-> "seasonal_naive", column |-> column,
                  window |-> 0, periods |-> periods, fit |-> FitFailed]
        IN  \* the 'month' column is added before the column is read,
            \* and the column is read only inside the loop
            /\ data_columns' = data_columns \cup {"month"}
            /\ IF column \notin data_columns /\ periods > 0
               THEN Raise("KeyError", c)
               ELSE Return(seasonal_naive_forecast(data, column, periods),
                           c, <<>>)
            /\ UNCHANGED data

ExponentialSmoothingForecast ==
    \E column \in Columns \cup {MissingColumn}, periods \in Horizons,
       fit \in FitOutcomes(data) :
        LET c == [op |-> "exponential_smoothing", column |-> column,
                  window |-> 0, periods |-> periods, fit |-> fit]
        IN  \* the column is read before the try block
            /\ IF column \notin data_columns
               THEN Raise("KeyError", [c EXCEPT !.fit = FitFailed])
                    /\ UNCHANGED data_columns
               ELSE /\ Return(exponential_smoothing_forecast(data, column,
                                                             periods, fit),
                              c, exponential_smoothing_stdout(fit))
                    /\ data_columns' = IF fit.ok THEN data_columns
                                       ELSE data_columns \cup {"month"}
            /\ UNCHANGED data

EnsembleForecast ==
    \E column \in Columns \cup {MissingColumn}, periods \in Horizons,
       fit \in FitOutcomes(data) :
        LET c == [op |-> "ensemble", column |-> column,
                  window |-> DefaultWindow, periods |-> periods, fit |-> fit]
        IN  \* the moving average runs first and reads the column at once
            /\ IF column \notin data_columns
               THEN Raise("KeyError", [c EXCEPT !.fit = FitFailed])
                    /\ UNCHANGED data_columns
               ELSE /\ Return(ensemble_forecast(data, column, periods, fit),
                              c, exponential_smoothing_stdout(fit))
                    /\ data_columns' = data_columns \cup {"month"}
            /\ UNCHANGED data

\* both enrich, in place, the frame the last forecasting call returned
CalculateConfidenceIntervals ==
    /\ outcome = "returned"
    /\ \E column \in Columns :
        /\ df' = calculate_confidence_intervals(data, df, column)
        /\ ci_column' = column
        \* the call repeats the previous one on this frame
        /\ ci_repeat' = (ci_column = column)
    /\ UNCHANGED <<data, data_columns, outcome, call, stdout, last_scenarios,
                   analysis, processor, csv>>

ScenarioAnalysis ==
    /\ outcome = "returned"
    /\ \E scenarios \in ScenarioInputs :
        /\ df' = scenario_analysis(df, scenarios)
        /\ last_scenarios' = Called(scenarios)
    /\ UNCHANGED <<data, data_columns, outcome, call, stdout, ci_column,
                   ci_repeat, analysis, processor, csv>>

Forecast ==
    \/ MovingAverageForecast
    \/ SeasonalNaiveForecast
    \/ ExponentialSmoothingForecast
    \/ EnsembleForecast

Next == Forecast

NextPost ==
    \/ Forecast
    \/ CalculateConfidenceIntervals
    \/ ScenarioAnalysis

Spec == Init /\ [][Next]_vars

SpecPost == InitPost /\ [][NextPost]_vars

(***************************************************************************)
(* State machine of a SeasonalAnalyzer over `data`: `analysis` holds the   *)
(* last call (with the period it asked for and the one handed to the       *)
(* library), what it returned, and the fields seasonal_stats and           *)
(* decomposition of the object.                                            *)
(***************************************************************************)
SignedVals == (-MaxVal)..MaxVal
Periods == {1, 2, DefaultPeriod}   \* the period asked of the decomposition

\* n consecutive months with values of either sign
RECURSIVE SignedSeries(_)
SignedSeries(n) ==
    IF n = 1 THEN {<<Row(FirstYm, a)>> : a \in SignedVals}
    ELSE {Append(s, Row(FirstYm + n - 1, a)) :
             s \in SignedSeries(n - 1), a \in SignedVals}

\* two observations of one calendar month, a year apart, followed by an
\* observation of a calendar month of a lower number
YearApartSeries ==
    {<<Row(FirstYm, a), Row(FirstYm + 12, b), Row(FirstYm + 14, c)>> :
        a \in SignedVals, b \in SignedVals, c \in SignedVals}

\* the fewest consecutive months the stationarity test accepts
TrendSeries ==
    {[k \in 1..AdfMinObs |->
         Row(FirstYm + k - 1, IF k = 1 THEN a ELSE IF k = AdfMinObs THEN c ELSE b)] :
        a \in SignedVals, b \in SignedVals, c \in SignedVals}

\* just under, at and over two cycles of the default period
CycleSeries ==
    {PatternSeries(n, 0, 1, 0) :
        n \in (2 * DefaultPeriod - 1)..(2 * DefaultPeriod + 1)}

AnalyzerSeries ==
    UNION {SignedSeries(n) : n \in 1..MaxLen}
        \cup TrendSeries \cup YearApartSeries \cup CycleSeries

InitAnalyzer ==
    /\ data \in AnalyzerSeries
    /\ data_columns \in {BaseColumns, BaseColumns \cup {"month"}}
    /\ df = NoFrame
    /\ outcome = "none"
    /\ call = NoCall
    /\ stdout = <<>>
    /\ ci_column = NoColumn
    /\ ci_repeat = FALSE
    /\ last_scenarios = NotCalled
    /\ analysis = NoAnalysis
    /\ processor = NoProcessor
    /\ csv = <<>>

AnalyzeSeasonality ==
    \E column \in Columns \cup {MissingColumn} :
        /\ data_columns' = data_columns \cup {"month"}
        /\ IF column \notin data_columns
           THEN analysis' = [analysis EXCEPT !.op = "analyze_seasonality",
                                !.column = column, !.period = 0, !.used = 0,
                                !.outcome = "KeyError", !.returned = NoStats]
           ELSE LET stats == analyze_seasonality(data, column)
                IN  analysis' = [analysis EXCEPT !.op = "analyze_seasonality",
                                    !.column = column, !.period = 0, !.used = 0,
                                    !.outcome = "returned",
                                    !.returned = stats,
                                    !.seasonal_stats = stats]
        /\ UNCHANGED <<data, forecaster_vars, processor_vars>>

TrendAnalysis ==
    \E column \in Columns \cup {MissingColumn} :
        \E adf \in AdfOutcomes(data) :
            /\ IF column \notin data_columns
               THEN analysis' = [analysis EXCEPT !.op = "trend_analysis",
                                    !.column = column, !.period = 0, !.used = 0,
                                    !.outcome = "KeyError",
                                    !.returned = NoStats]
               ELSE IF ~adf.ok
               THEN analysis' = [analysis EXCEPT !.op = "trend_analysis",
                                    !.column = column, !.period = 0, !.used = 0,
                                    !.outcome = "ValueError",
                                    !.returned = NoStats]
               ELSE analysis' = [analysis EXCEPT !.op = "trend_analysis",
                                    !.column = column, !.period = 0, !.used = 0,
                                    !.outcome = "returned",
                                    !.returned = trend_analysis(data, column, adf)]
            /\ UNCHANGED <<data, data_columns, forecaster_vars, processor_vars>>

DecomposeTimeSeries ==
    \E column \in Columns \cup {MissingColumn}, period \in Periods :
        /\ IF column \notin data_columns
           THEN analysis' = [analysis EXCEPT !.op = "decompose_time_series",
                                !.column = column, !.period = period,
                                !.used = 0,
                                !.outcome = "KeyError", !.returned = NoStats]
           ELSE LET res == decompose_time_series(data, column, period)
                IN  IF ~res.ok
                    THEN analysis' = [analysis EXCEPT
                                        !.op = "decompose_time_series",
                                        !.column = column, !.period = period,
                                        !.used = res.period,
                                        !.outcome = "ValueError",
                                        !.returned = NoStats]
                    ELSE analysis' = [analysis EXCEPT
                                        !.op = "decompose_time_series",
                                        !.column = column, !.period = period,
                                        !.used = res.period,
                                        !.outcome = "returned",
                                        !.returned = res.decomposition,
                                        !.decomposition = res.decomposition]
        /\ UNCHANGED <<data, data_columns, forecaster_vars, processor_vars>>

NextAnalyzer ==
    \/ AnalyzeSeasonality
    \/ TrendAnalysis
    \/ DecomposeTimeSeries

SpecAnalyzer == InitAnalyzer /\ [][NextAnalyzer]_vars

(***************************************************************************)
(* State machine of a DataProcessor: `processor` holds its four fields,    *)
(* the last operation and the exception it raised; `csv` is the content of *)
(* the file at file_path.                                                  *)
(***************************************************************************)
FilePaths == {"None", "cash_flow.csv"}

\* one row of the file: day k of a month, net_cash_flow = inflow - outflow
DailyRow(ym, k, inflow, outflow, scale) ==
    [date |-> <<ym \div 12, (ym % 12) + 1, k>>,
     cash_inflow |-> R(inflow),
     cash_outflow |-> R(outflow),
     net_cash_flow |-> R(inflow - outflow),
     accounts_receivable |-> R(scale * k),
     accounts_payable |-> R(scale),
     inventory |-> R(2 * scale)]

Reverse(s) == [k \in 1..Len(s) |-> s[Len(s) + 1 - k]]

\* files of n rows: flat flows but for one day of inflow h (the last) and
\* one day of outflow h (the one before), the last row possibly two months
\* later, the first row possibly without its cash_inflow cell, the latest
\* row first
DailyFile(n, h, in_spike, out_spike, late, scale, hole) ==
    LET rows == [k \in 1..n |->
                    LET r == DailyRow(FirstYm + (IF late /\ k = n THEN 2 ELSE 0), k,
                                      IF in_spike /\ k = n THEN h ELSE 0,
                                      IF out_spike /\ k = n - 1 THEN h ELSE 0,
                                      scale)
                    IN  IF hole /\ k = 1 THEN [r EXCEPT !.cash_inflow = NaN]
                        ELSE r]
    IN  Reverse(rows)

DailyFiles ==
    {DailyFile(n, h, i, o, l, sc, ho) :
        n \in 1..MaxRows, h \in 1..MaxVal, i \in BOOLEAN, o \in BOOLEAN,
        l \in BOOLEAN, sc \in 0..1, ho \in BOOLEAN}

NewProcessor(file_path) ==
    [file_path |-> file_path, data |-> None, monthly_data |-> None,
     quarterly_data |-> None, op |-> "none", raised |-> "none"]

InitProcessor ==
    /\ data = <<>>
    /\ data_columns = {}
    /\ df = NoFrame
    /\ outcome = "none"
    /\ call = NoCall
    /\ stdout = <<>>
    /\ ci_column = NoColumn
    /\ ci_repeat = FALSE
    /\ last_scenarios = NotCalled
    /\ analysis = NoAnalysis
    /\ csv \in DailyFiles
    /\ processor \in {NewProcessor(f) : f \in FilePaths}

ProcessorRaise(op, exc) ==
    /\ processor' = [processor EXCEPT !.op = op, !.raised = exc]
    /\ UNCHANGED <<csv, data, data_columns, forecaster_vars, analysis>>

LoadData ==
    IF processor.file_path = "None"
    THEN ProcessorRaise("load_data", "ValueError")
    ELSE /\ processor' = [processor EXCEPT !.op = "load_data",
                             !.raised = "none", !.data = load_data(csv)]
         /\ UNCHANGED <<csv, data, data_columns, forecaster_vars, analysis>>

CleanData ==
    IF processor.data.none
    THEN ProcessorRaise("clean_data", "ValueError")
    ELSE /\ processor.data.cleaned < MaxCleans
         /\ processor' = [processor EXCEPT !.op = "clean_data",
                             !.raised = "none",
                             !.data = clean_data(processor.data)]
         /\ UNCHANGED <<csv, data, data_columns, forecaster_vars, analysis>>

AggregateMonthly ==
    IF processor.data.none
    THEN ProcessorRaise("aggregate_monthly", "ValueError")
    ELSE /\ processor' = [processor EXCEPT !.op = "aggregate_monthly",
                             !.raised = "none",
                             !.data.columns = @ \cup {"year_month"},
                             !.monthly_data = aggregate_monthly(processor.data)]
         /\ UNCHANGED <<csv, data, data_columns, forecaster_vars, analysis>>

\* variant: aggregate_quarterly without its guard
AggregateQuarterly_unguarded ==
    /\ processor' = [processor EXCEPT !.op = "aggregate_quarterly",
                        !.raised = "none",
                        !.data.columns = @ \cup {"year_quarter"},
                        !.quarterly_data = aggregate_quarterly(processor.data)]
    /\ UNCHANGED <<csv, data, data_columns, forecaster_vars, analysis>>

AggregateQuarterly ==
    IF processor.data.none
    THEN ProcessorRaise("aggregate_quarterly", "ValueError")
    ELSE /\ processor' = [processor EXCEPT !.op = "aggregate_quarterly",
                             !.raised = "none",
                             !.data.columns = @ \cup {"year_quarter"},
                             !.quarterly_data = aggregate_quarterly(processor.data)]
         /\ UNCHANGED <<csv, data, data_columns, forecaster_vars, analysis>>

\* calculate_kpis, with the aggregate_monthly it calls when there is no
\* monthly frame yet
CalculateKpis ==
    IF processor.monthly_data.none /\ processor.data.none
    THEN ProcessorRaise("calculate_kpis", "ValueError")
    ELSE /\ processor' =
                IF processor.monthly_data.none
                THEN [processor EXCEPT !.op = "calculate_kpis",
                         !.raised = "none",
                         !.data.columns = @ \cup {"year_month"},
                         !.monthly_data =
                             calculate_kpis(aggregate_monthly(processor.data))]
                ELSE [processor EXCEPT !.op = "calculate_kpis",
                         !.raised = "none",
                         !.monthly_data = calculate_kpis(processor.monthly_data)]
         /\ UNCHANGED <<csv, data, data_columns, forecaster_vars, analysis>>

NextProcessor ==
    \/ LoadData
    \/ CleanData
    \/ AggregateMonthly
    \/ AggregateQuarterly
    \/ CalculateKpis

SpecProcessor == InitProcessor /\ [][NextProcessor]_vars

(***************************************************************************)
(* Properties of the forecasting models (specification Spec).              *)
(***************************************************************************)
Returned(op) == outcome = "returned" /\ call.op = op
LastYm == data[Len(data)].year_month
Consecutive(d) == \A k \in 1..(Len(d) - 1) : d[k + 1].year_month = d[k].year_month + 1
TargetMonths(frame) == [i \in 1..Len(frame.date) |-> to_period(frame.date[i])]
FollowingMonths(h) == [i \in 1..h |-> LastYm + i]

\* C1: each of the three models returns exactly `periods` entries and entry
\* i targets the i-th calendar month after the last month of the series.
C1_HorizonAndTargetMonths ==
    (/\ outcome = "returned"
     /\ call.op \in {"moving_average", "seasonal_naive", "exponential_smoothing"})
    => /\ Len(df.forecast) = call.periods
       /\ TargetMonths(df) = FollowingMonths(call.periods)

\* C2: every ensemble point forecast is the mean of the three component
\* columns kept in the frame, and those columns are the outputs of the
\* moving-average, seasonal-naive and exponential-smoothing models for the
\* same series, column and horizon.
C2_EnsembleIsMeanOfComponents ==
    Returned("ensemble")
    => /\ Len(df.forecast) = call.periods
       /\ \A i \in 1..call.periods :
            df.forecast[i] =
                RDivInt(RAdd(df.ma_forecast[i],
                             RAdd(df.seasonal_forecast[i], df.es_forecast[i])), 3)
       /\ df.ma_forecast =
            moving_average_forecast(data, call.column, DefaultWindow,
                                    call.periods).forecast
       /\ df.seasonal_forecast =
            seasonal_naive_forecast(data, call.column, call.periods).forecast
       /\ df.es_forecast =
            exponential_smoothing_forecast(data, call.column, call.periods,
                                           call.fit).forecast

\* an ensemble over three defined, pairwise different component values
C2_Witness ==
    /\ Returned("ensemble")
    /\ call.periods >= 1
    /\ call.fit.ok
    /\ ~IsNaN(df.forecast[1])
    /\ df.ma_forecast[1] # df.seasonal_forecast[1]
    /\ df.seasonal_forecast[1] # df.es_forecast[1]
    /\ df.ma_forecast[1] # df.es_forecast[1]

\* the observations of d (by position) made in month ym / in calendar month m
ObservedIn(d, ym) == {k \in 1..Len(d) : d[k].year_month = ym}
SharingMonth(d, m) == {k \in 1..Len(d) : MonthOf(d[k].year_month) = m}
RECURSIVE SumAt(_, _, _)
SumAt(d, column, K) ==
    IF K = {} THEN 0
    ELSE LET k == CHOOSE x \in K : TRUE
         IN  d[k][column] + SumAt(d, column, K \ {k})

\* C5: a seasonal-naive entry is the value observed one year before its
\* target month when there is one, and otherwise the mean of the
\* observations sharing the target's calendar month; twelve consecutive
\* months of history forecast twelve months ahead are reused one for one.
C5_SeasonalNaiveValues ==
    (Returned("seasonal_naive") /\ call.column \in Columns)
    => /\ \A i \in 1..Len(df.forecast) :
            LET target == to_period(df.date[i])
                prior == ObservedIn(data, target - 12)
                same == SharingMonth(data, MonthOf(target))
            IN  /\ \A k \in prior : df.forecast[i] = R(data[k][call.column])
                /\ (prior = {} /\ same # {})
                   => df.forecast[i] =
                        Norm(SumAt(data, call.column, same), Cardinality(same))
       /\ (Len(data) = 12 /\ Consecutive(data) /\ call.periods = 12)
          => \A i \in 1..12 : df.forecast[i] = R(data[i][call.column])

\* one entry reuses last year's value and another averages two unequal
\* observations of its calendar month
C5_Witness ==
    /\ Returned("seasonal_naive")
    /\ call.column \in Columns
    /\ \E i \in 1..Len(df.forecast) :
        ObservedIn(data, to_period(df.date[i]) - 12) # {}
    /\ \E i \in 1..Len(df.forecast) :
        LET target == to_period(df.date[i])
            same == SharingMonth(data, MonthOf(target))
        IN  /\ ObservedIn(data, target - 12) = {}
            /\ Cardinality(same) >= 2
            /\ \E j, k \in same : data[j][call.column] # data[k][call.column]

\* C6: with at least `window` observations every moving-average entry is
\* the mean of the last `window` observations; over a constant series it
\* is that constant.
C6_MovingAverageIsTrailingMean ==
    (/\ Returned("moving_average")
     /\ call.column \in Columns
     /\ Len(data) >= call.window)
    => LET n == Len(data)
           lastw == (n - call.window + 1)..n
       IN  /\ Len(df.forecast) = call.periods
           /\ \A i \in 1..call.periods :
                /\ df.forecast[i] =
                     Norm(SumAt(data, call.column, lastw), call.window)
                /\ (\A k \in 1..n : data[k][call.column] = data[1][call.column])
                   => df.forecast[i] = R(data[1][call.column])

\* a window shorter than the series whose mean differs from the mean of
\* the whole series and from the mean of the first `window` observations
C6_Witness ==
    /\ Returned("moving_average")
    /\ call.column \in Columns
    /\ call.periods >= 1
    /\ call.window >= 2
    /\ Len(data) > call.window
    /\ df.forecast[1] # Mean(ColumnOf(data, call.column))
    /\ df.forecast[1] # Mean(SubSeq(ColumnOf(data, call.column), 1, call.window))

\* the fit failed: it raised, or returned without converging
FitFails(fit) == ~fit.ok \/ ~fit.converged

\* C7: when the Holt-Winters fit fails for any reason (an exception, or no
\* convergence), exponential_smoothing_forecast returns (does not raise),
\* prints the failure and its result is the seasonal-naive result for the
\* same column and horizon; the ensemble still returns `periods` entries.
C7_FitFailureFallsBack ==
    /\ (/\ call.op = "exponential_smoothing"
        /\ call.column \in Columns
        /\ FitFails(call.fit))
       => /\ outcome = "returned"
          /\ stdout # <<>>
          /\ df = seasonal_naive_forecast(data, call.column, call.periods)
    /\ (/\ call.op = "ensemble"
        /\ call.column \in Columns
        /\ FitFails(call.fit))
       => /\ outcome = "returned"
          /\ stdout # <<>>
          /\ \A c \in DOMAIN df : Len(df[c]) = call.periods

\* C8: the ensemble never returns a result built from members whose target
\* months disagree.
C8_EnsembleMembersAligned ==
    Returned("ensemble")
    => LET ma_f == moving_average_forecast(data, call.column, DefaultWindow,
                                           call.periods)
           seasonal_f == seasonal_naive_forecast(data, call.column, call.periods)
           es_f == exponential_smoothing_forecast(data, call.column,
                                                  call.periods, call.fit)
       IN  /\ TargetMonths(ma_f) = TargetMonths(seasonal_f)
           /\ TargetMonths(ma_f) = TargetMonths(es_f)

\* C9: seasonal_naive_forecast never returns an undefined entry.
C9_SeasonalNaiveNeverNaN ==
    Returned("seasonal_naive")
    => \A i \in 1..Len(df.forecast) : ~IsNaN(df.forecast[i])

\* C10: with fewer than `window` observations moving_average_forecast
\* either fails or averages over the observations available.
C10_ShortSeriesShrinksOrFails ==
    (/\ call.op = "moving_average"
     /\ call.column \in Columns
     /\ Len(data) < call.window)
    => \/ outcome # "returned"
       \/ \A i \in 1..Len(df.forecast) :
            df.forecast[i] = Mean(ColumnOf(data, call.column))

(***************************************************************************)
(* Properties of the post-processing steps (specification SpecPost).       *)
(***************************************************************************)
HasBounds(frame) ==
    {"lower_80", "upper_80", "lower_95", "upper_95"} \subseteq DOMAIN frame

\* C3: once confidence intervals are computed, every entry satisfies
\* lower_95 <= lower_80 <= forecast <= upper_80 <= upper_95.
C3_IntervalOrdering ==
    (outcome = "returned" /\ ci_column # NoColumn)
    => /\ HasBounds(df)
       /\ \A i \in 1..Len(df.forecast) :
            /\ RLeq(df.lower_95[i], df.lower_80[i])
            /\ RLeq(df.lower_80[i], df.forecast[i])
            /\ RLeq(df.forecast[i], df.upper_80[i])
            /\ RLeq(df.upper_80[i], df.upper_95[i])

\* the column a scenario name stands for
ScenarioColumnName ==
    [pessimistic |-> "pessimistic_forecast", optimistic |-> "optimistic_forecast",
     conservative |-> "conservative_forecast", ma |-> "ma_forecast"]

\* frame[col] is frame['forecast'] times num / den at every period
ScaledBy(frame, col, num, den) ==
    /\ col \in DOMAIN frame
    /\ Len(frame[col]) = Len(frame.forecast)
    /\ \A i \in 1..Len(frame.forecast) :
        frame[col][i] = RMul(frame.forecast[i], <<num, den>>)

\* C4: after scenario_analysis every scenario n with multiplier m has a
\* column '<n>_forecast' equal to the point forecast times m at every
\* period; without a mapping the scenarios are pessimistic 0.8,
\* optimistic 1.2 and conservative 0.9.
C4_ScenarioColumnsScaled ==
    (outcome = "returned" /\ last_scenarios.called)
    => IF last_scenarios.none
       THEN /\ ScaledBy(df, "pessimistic_forecast", 4, 5)
            /\ ScaledBy(df, "optimistic_forecast", 6, 5)
            /\ ScaledBy(df, "conservative_forecast", 9, 10)
       ELSE \A k \in 1..Len(last_scenarios.items) :
               LET item == last_scenarios.items[k]
               IN  ScaledBy(df, ScenarioColumnName[item[1]],
                            item[2][1], item[2][2])

\* a mapping of its own applied to a defined, non-zero forecast
C4_Witness ==
    /\ outcome = "returned"
    /\ last_scenarios.called
    /\ ~last_scenarios.none
    /\ Len(last_scenarios.items) >= 1
    /\ Len(df.forecast) >= 1
    /\ ~IsNaN(df.forecast[1])
    /\ df.forecast[1] # R(0)
    /\ "pessimistic_forecast" \in DOMAIN df
    /\ df.pessimistic_forecast[1] # df.forecast[1]

BoundColumns == {"lower_80", "upper_80", "lower_95", "upper_95"}

\* C11: calculate_confidence_intervals applied again to a frame, with the
\* same series and column, leaves forecast and the four bounds as they were
\* after the first application.
C11_IntervalsIdempotent ==
    [][(/\ ci_column # NoColumn
        /\ ci_column' = ci_column
        /\ ci_repeat'
        /\ UNCHANGED <<call, last_scenarios>>)
       => \A c \in BoundColumns \cup {"forecast"} : df'[c] = df[c]]_vars

\* a second application over bounds of non-zero width
C11_Witness ==
    /\ outcome = "returned"
    /\ ci_repeat
    /\ Len(df.forecast) >= 1
    /\ ~IsNaN(df.lower_80[1])
    /\ df.lower_80[1] # df.forecast[1]

\* the number of scenarios of a call
ScenarioCount(sc) == IF sc.none THEN 3 ELSE Len(sc.items)

\* C18: scenario_analysis only adds columns: a first application to a
\* forecast frame leaves every column the frame had with the same values
\* and adds exactly one column per scenario.
C18_ScenariosOnlyAddColumns ==
    [][(/\ outcome = "returned"
        /\ ~last_scenarios.called
        /\ last_scenarios'.called
        /\ UNCHANGED <<call, ci_column, ci_repeat>>)
       => /\ \A c \in DOMAIN df : c \in DOMAIN df' /\ df'[c] = df[c]
          /\ Cardinality(DOMAIN df') =
                Cardinality(DOMAIN df) + ScenarioCount(last_scenarios')]_vars

\* C12: no forecasting call changes the series it is given: the frame has
\* the same columns and the same values after the call as before.
C12_SeriesNotMutated ==
    [][data' = data /\ data_columns' = data_columns]_vars

(***************************************************************************)
(* Properties of the analyzer (specification SpecAnalyzer).                *)
(***************************************************************************)
AnalysisReturned(op) == analysis.op = op /\ analysis.outcome = "returned"

\* the mean the returned statistics give for a calendar month
MonthMean(stats, m) ==
    LET ms == stats.monthly_stats
    IN  ms[CHOOSE g \in 1..Len(ms) : ms[g].month = m].mean

\* C13: for a series whose overall mean of the column is not zero, the
\* seasonal indexes returned by analyze_seasonality, weighted by the number of
\* observations of their calendar month, average to 1 over all observations.
C13_WeightedSeasonalIndexIsOne ==
    (/\ AnalysisReturned("analyze_seasonality")
     /\ Mean(ColumnOf(data, analysis.column)) # R(0))
    => LET ms == analysis.returned.monthly_stats
       IN  RDivInt(RSum([g \in 1..Len(ms) |->
                           RMul(R(ms[g].count), ms[g].seasonal_index)]),
                   Len(data)) = R(1)

\* two calendar months with different counts and different means
C13_Witness ==
    /\ AnalysisReturned("analyze_seasonality")
    /\ Mean(ColumnOf(data, analysis.column)) # R(0)
    /\ LET ms == analysis.returned.monthly_stats
       IN  /\ Len(ms) = 2
           /\ ms[1].count # ms[2].count
           /\ ms[1].mean # ms[2].mean

\* C14: peak_month is a calendar month whose mean is the largest of all
\* calendar months present and trough_month one whose mean is the smallest,
\* in both cases the lowest month number among those that tie, and
\* seasonal_range is the mean of the peak month minus that of the trough month.
C14_PeakAndTrough ==
    AnalysisReturned("analyze_seasonality")
    => LET st == analysis.returned
           ms == st.monthly_stats
           peak == MonthMean(st, st.peak_month)
           trough == MonthMean(st, st.trough_month)
       IN  /\ \A g \in 1..Len(ms) :
                 /\ RLeq(ms[g].mean, peak)
                 /\ ms[g].mean = peak => st.peak_month <= ms[g].month
                 /\ RLeq(trough, ms[g].mean)
                 /\ ms[g].mean = trough => st.trough_month <= ms[g].month
           /\ st.seasonal_range = RSub(peak, trough)

\* a tie for the peak, won by a month that comes later in the series
C14_Witness ==
    /\ AnalysisReturned("analyze_seasonality")
    /\ LET st == analysis.returned
           ms == st.monthly_stats
       IN  /\ Len(ms) = 2
           /\ ms[1].mean = ms[2].mean
           /\ st.peak_month = ms[1].month
           /\ MonthOf(data[1].year_month) = ms[2].month

\* C15: in the statistics trend_analysis returns, a first observation of
\* exactly zero makes total_change_percent and monthly_growth_rate_percent
\* positive infinity; otherwise they are (end - start) / |start| * 100 and
\* slope / |start| * 100.
C15_PercentChangeBaseline ==
    AnalysisReturned("trend_analysis")
    => LET y == ColumnOf(data, analysis.column)
           st == analysis.returned
           start == y[1]
           end == y[Len(y)]
       IN  IF start = R(0)
           THEN /\ st.total_change_percent = PosInf
                /\ st.monthly_growth_rate_percent = PosInf
           ELSE /\ st.total_change_percent =
                       RMul(RDiv(RSub(end, start), RAbs(start)), R(100))
                /\ st.monthly_growth_rate_percent =
                       RMul(RDiv(st.slope, RAbs(start)), R(100))

\* a series that starts at zero and falls
C15_Witness ==
    /\ AnalysisReturned("trend_analysis")
    /\ data[1][analysis.column] = 0
    /\ data[Len(data)][analysis.column] < 0
    /\ RLt(analysis.returned.slope, R(0))
    /\ analysis.returned.total_change_percent = PosInf

\* the period the claim gives for n observations and a requested period
ClaimedPeriod(n, period) ==
    IF n >= 2 * period THEN period
    ELSE IF n \div 2 >= 1 THEN n \div 2 ELSE 1

\* a decomposition that got as far as the library call
Decomposed ==
    /\ analysis.op = "decompose_time_series"
    /\ analysis.outcome \in {"returned", "ValueError"}

\* C16 as stated: for every non-empty series and requested period >= 1 the
\* period used is the requested one when n >= 2 * period and
\* max(1, floor(n / 2)) otherwise, it is at least 1, and n >= 2 * period used.
C16_PeriodCoversTwoCycles ==
    Decomposed
    => /\ analysis.used = ClaimedPeriod(Len(data), analysis.period)
       /\ analysis.used >= 1
       /\ Len(data) >= 2 * analysis.used

\* C16 amended: the same for every series of at least two observations.
C16_PeriodCoversTwoCyclesFromTwo ==
    (Decomposed /\ Len(data) >= 2)
    => /\ analysis.used = ClaimedPeriod(Len(data), analysis.period)
       /\ analysis.used >= 1
       /\ Len(data) >= 2 * analysis.used

\* a period reduced to half the length of the series, above one
C16_Witness ==
    /\ AnalysisReturned("decompose_time_series")
    /\ analysis.used # analysis.period
    /\ analysis.used > 1

(***************************************************************************)
(* Properties of the data processor (specification SpecProcessor).         *)
(***************************************************************************)
\* every row of the file has its cells and net_cash_flow = inflow - outflow
IdentityInFile ==
    \A k \in 1..Len(csv) :
        /\ \A c \in Range(FlowColumns) : ~IsNaN(csv[k][c])
        /\ csv[k].net_cash_flow = RSub(csv[k].cash_inflow, csv[k].cash_outflow)

\* the monthly frame was aggregated from cleaned rows and went through
\* calculate_kpis
PipelineDone ==
    /\ ~processor.monthly_data.none
    /\ processor.monthly_data.cleaned >= 1
    /\ processor.monthly_data.kpis

\* C17: when net_cash_flow = cash_inflow - cash_outflow in every row loaded,
\* the same holds in every monthly observation that clean_data, then
\* aggregate_monthly, then calculate_kpis produce.
C17_NetIdentityPreserved ==
    (IdentityInFile /\ PipelineDone)
    => \A g \in 1..Len(processor.monthly_data.rows) :
          LET r == processor.monthly_data.rows[g]
          IN  r.net_cash_flow = RSub(r.cash_inflow, r.cash_outflow)

\* C19: in every monthly observation calculate_kpis returns, cash_cycle is
\* dso + dio - dpo of the values stored in the same observation.
C19_CashCycleOfStoredKpis ==
    (~processor.monthly_data.none /\ processor.monthly_data.kpis)
    => \A g \in 1..Len(processor.monthly_data.rows) :
          LET r == processor.monthly_data.rows[g]
          IN  r.cash_cycle = RSub(RAdd(r.dso, r.dio), r.dpo)

\* C20: an operation that finds no file path (load_data) or no data loaded
\* (the other four) raises ValueError and leaves data, monthly_data and
\* quarterly_data as they were; a monthly or quarterly frame is only ever
\* set when data is.
C20_GuardsRaiseAndPreserve ==
    [][/\ (\/ (processor'.op = "load_data" /\ processor.file_path = "None")
           \/ (processor'.op # "load_data" /\ processor.data.none))
          => /\ processor'.raised = "ValueError"
             /\ processor'.data = processor.data
             /\ processor'.monthly_data = processor.monthly_data
             /\ processor'.quarterly_data = processor.quarterly_data
       /\ (~processor'.monthly_data.none \/ ~processor'.quarterly_data.none)
          => ~processor'.data.none]_vars

\* a guard has fired on a processor that was given a file
C20_Witness ==
    /\ processor.raised = "ValueError"
    /\ processor.op = "calculate_kpis"
    /\ processor.file_path # "None"

====
